---- MODULE Spec2Model ----
\* CareBloom (src/main.py): the FastAPI service over two persisted classifiers.
\* The model covers module start-up (model loading, Twilio configuration), the
\* /api/predict handler and the /api/send_alert handler.  Both handlers are
\* "async def" bodies without an await, so one request runs to completion
\* before another handler starts; the steps of api_predict are modelled one
\* after the other with a program counter so that the order of the calls it
\* makes can be observed.
\*
\* Conventions
\*   - a Python dict / JSON object is a function whose domain is its key set;
\*   - numbers of the request are integers; the Fahrenheit temperature is kept
\*     in tenths of a degree, probabilities in thousandths;
\*   - the f-string "{p*100:.1f}%" is the pair <<whole, tenth>>, the literal
\*     string "0%" is the one-element sequence <<0>> (so "0%" # "0.0%");
\*   - an optional Python string is [t |-> "None"|"str", v |-> text];
\*   - a phone number is a sequence of tokens (prefix, plus sign, digit
\*     groups, spaces, dashes).
EXTENDS Integers, Sequences, FiniteSets, TLC

VARIABLES
    bound,          \* module-level names bound by the loading block (lines 38-45)
    client,         \* TRUE iff the Twilio client was constructed (lines 55-60)
    pc,             \* position of the api_predict request in flight, or "idle"
    body,           \* the JSON body of the latest /api/predict request
    model_a_out,    \* the class id the persisted ModelA assigns to that record
    frame,          \* local variables of api_predict assigned so far
    calls,          \* calls made on the collaborators during the request, in order
    groq_reply,     \* what the Groq call did during the request
    response,       \* the response to the latest /api/predict request
    twilio_calls,   \* number of client.messages.create calls of the latest alert
    twilio_outcome, \* what client.messages.create did during the latest alert
    message,        \* arguments of that client.messages.create call
    alert_response, \* the response to the latest /api/send_alert request
    served          \* status of the last api_predict response sent, 0 if none

vars == <<bound, client, pc, body, model_a_out, frame, calls, groq_reply,
          response, twilio_calls, twilio_outcome, message, alert_response,
          served>>

predictVars == <<pc, body, model_a_out, frame, calls, groq_reply, response>>
alertVars == <<twilio_calls, twilio_outcome, message, alert_response>>

\* ---------------------------------------------------------------- bounds

\* Class ids a classifier may return: -MaxClassId .. MaxClassId.
MaxClassId == 4

\* At most this many fields are left out of a request body.
MaxMissing == 1

ClassIds == (0 - MaxClassId)..MaxClassId

\* ------------------------------------------------------- python helpers

EmptyDict == [k \in {} |-> 0]

\* dict.update: keys of u override those of d.
Update(d, u) == u @@ d

PyNone == [t |-> "None", v |-> ""]
PyStr(s) == [t |-> "str", v |-> s]

\* Truth value of an optional string: None and "" are falsy.
Truthy(x) == x.t = "str" /\ x.v # ""

\* seq[i] with Python's indexing: 0-based, negative indices count from the end.
ValidIndex(seq, i) == (0 - Len(seq)) <= i /\ i < Len(seq)
PyIndex(seq, i) == IF i >= 0 THEN seq[i + 1] ELSE seq[Len(seq) + i + 1]

\* ----------------------------------------------------- start-up (38-60)

LoadOrder == <<"scaler_a", "model_a", "scaler_b", "model_b">>

\* The four joblib.load calls sit in one try block: the first load that
\* raises leaves its own name and every later name unbound.  n is the number
\* of loads that succeeded.
LoadModels(n) == {LoadOrder[i] : i \in 1..n}

Handles == LoadModels(Len(LoadOrder))

\* ------------------------------------------------ request schema (74-91)

FieldsA == {"Age", "SystolicBP", "DiastolicBP", "BS", "BodyTemp", "HeartRate",
            "PulsePressure"}

StageBOnlyFields == {"gravida", "parity", "gestational_age_weeks", "BMI",
                     "diabetes", "hypertension", "HB", "fetal_weight",
                     "Protien_Uria", "amniotic_fluid_levels"}

\* Every field of PredictionRequest is declared without a default.
Schema == FieldsA \cup StageBOnlyFields

ValidationError == [status |-> 422, content |-> [detail |-> "Field required"]]

\* The mutant of PredictionRequest: Stage B fields optional, defaulting to 0.
PredictionRequestDefaultsZero(b) ==
    IF FieldsA \subseteq DOMAIN b
    THEN [ok |-> TRUE,
          data |-> [f \in Schema |-> IF f \in DOMAIN b THEN b[f] ELSE 0]]
    ELSE [ok |-> FALSE, data |-> EmptyDict]

\* pydantic's validation of the JSON body b against PredictionRequest.
PredictionRequest(b) ==
    IF Schema \subseteq DOMAIN b
    THEN [ok |-> TRUE, data |-> [f \in Schema |-> b[f]]]
    ELSE [ok |-> FALSE, data |-> EmptyDict]

\* ------------------------------------------------ api_predict (297-346)

\* (data.BodyTemp * 9 / 5) + 32, in tenths of a degree.
body_temp_fahrenheit(BodyTemp) == BodyTemp * 18 + 320

FeaturesA(data) ==
    <<data.Age, data.SystolicBP, data.DiastolicBP, data.BS,
      body_temp_fahrenheit(data.BodyTemp), data.HeartRate, data.PulsePressure>>

\* The mutant of risk_map: the ids read in their natural order.
risk_map_ordinal(id) ==
    CASE id = 0 -> "low risk"
      [] id = 1 -> "mid risk"
      [] id = 2 -> "high risk"
      [] OTHER  -> "unknown"

\* risk_map.get(risk_pred, "unknown")
risk_map(id) ==
    CASE id = 1 -> "low risk"
      [] id = 2 -> "mid risk"
      [] id = 0 -> "high risk"
      [] OTHER  -> "unknown"

\* The mutant of Escalates: everything but "low risk" escalates.
EscalatesUnlessLow(risk_label) == risk_label # "low risk"

\* if risk_label == "high risk":
Escalates(risk_label) == risk_label = "high risk"

\* The column names of x_b (the source writes the BMI unit with a
\* superscript 2).
FEATURES_B ==
    <<"gravida", "parity", "gestational age (weeks)", "Age (yrs)",
      "BMI  [kg/m2]", "diabetes", "History of hypertension (y/n)",
      "Systolic BP", "Diastolic BP", "HB", "fetal weight(kgs)",
      "Protien Uria", "amniotic fluid levels(cm)">>

\* The row of x_b.
FeaturesB(data) ==
    <<data.gravida, data.parity, data.gestational_age_weeks, data.Age,
      data.BMI, data.diabetes, data.hypertension, data.SystolicBP,
      data.DiastolicBP, data.HB, data.fetal_weight, data.Protien_Uria,
      data.amniotic_fluid_levels>>

\* disease_map.get(disease_pred, "unknown")
disease_map(id) ==
    CASE id = 1 -> "low"
      [] id = 2 -> "mid"
      [] id = 0 -> "high"
      [] OTHER  -> "unknown"

\* f"{p * 100:.1f}%" for a probability p given in thousandths.
FormatPercent(p) == <<p \div 10, p % 10>>

\* The literal "0%".
ZeroPercent == <<0>>

\* result.update(...) of the escalated branch.
ResultStageB(result, disease_label, disease_prob) ==
    Update(result, [Disease_Status |-> disease_label,
                    Disease_Probability |-> disease_prob])

\* result.update(...) of the else branch.
ResultNoStageB(result) ==
    Update(result, [Disease_Status |-> "N/A",
                    Disease_Probability |-> ZeroPercent])

\* The mutant of ErrorResponse: the error is added to whatever result was
\* built so far.
ErrorResponseKeepsResult(e) ==
    [status |-> 500,
     content |-> Update(IF "result" \in DOMAIN frame THEN frame.result
                        ELSE EmptyDict,
                        [error |-> e])]

\* except Exception as e: return JSONResponse({"error": str(e)}, 500)
ErrorResponse(e) == [status |-> 500, content |-> [error |-> e]]

NoResponse == [status |-> 0, content |-> EmptyDict]

\* ---------------------------------------- generate_health_plan (112-192)

PlanKeys == {"diet_suggestions", "rest_hydration_plan",
             "weekly_checkup_reminders"}

\* A JSON value found under a key of the reply.  items holds the elements of
\* a list, the characters of a string and the keys of an object, which is
\* what list(...) makes of each; a number or null has nothing to iterate.
\* The element "NaN" is the float json.loads makes of the literal NaN.
JsonList(items) == [tag |-> "list", items |-> items]
JsonString(chars) == [tag |-> "str", items |-> chars]
JsonObject(keys) == [tag |-> "dict", items |-> keys]
JsonNumber == [tag |-> "num", items |-> <<>>]
JsonNull == [tag |-> "null", items |-> <<>>]

\* What groq_client.chat.completions.create and the parse of its content can
\* come to: the call raises; the content is None; the content is not JSON;
\* the content is a JSON array or scalar; the content is a JSON object.
Reply(kind, sections) == [kind |-> kind, sections |-> sections]

NoReply == Reply("no call", EmptyDict)

Tips == <<"tip 1", "tip 2", "tip 3">>

GroqReplies ==
    { Reply("raises", EmptyDict),
      Reply("content is None", EmptyDict),
      Reply("not JSON", EmptyDict),
      Reply("JSON array", EmptyDict),
      Reply("JSON scalar", EmptyDict),
      Reply("JSON object", [k \in PlanKeys |-> JsonList(Tips)]),
      Reply("JSON object", EmptyDict),
      Reply("JSON object", [diet_suggestions |-> JsonList(Tips)]),
      Reply("JSON object", [k \in PlanKeys |-> JsonNumber]),
      Reply("JSON object", [k \in PlanKeys |->
                               IF k = "diet_suggestions" THEN JsonNull
                               ELSE JsonList(Tips)]),
      Reply("JSON object", [k \in PlanKeys |-> JsonString(<<"o", "k">>)]),
      Reply("JSON object", [k \in PlanKeys |-> JsonObject(<<"tips">>)]),
      Reply("JSON object", [k \in PlanKeys |-> JsonList(<<"tip 1", "NaN">>)]) }

\* The plan of the except branch.
FallbackPlan ==
    [diet_suggestions |-> <<"balanced meals", "avoid salty food",
                            "smaller meals">>,
     rest_hydration_plan |-> <<"regular sleep", "drink water",
                               "avoid strain">>,
     weekly_checkup_reminders |-> <<"prenatal visits", "note symptoms",
                                    "contact provider">>]

\* list(v) raises TypeError unless v is iterable.
Iterable(v) == v.tag \in {"list", "str", "dict"}

\* The try block: any exception of the call, of .strip(), of json.loads, of
\* plan.get or of list(...) ends in the except branch.
generate_health_plan(reply) ==
    IF reply.kind # "JSON object"
    THEN FallbackPlan
    ELSE IF \E k \in DOMAIN reply.sections : ~Iterable(reply.sections[k])
    THEN FallbackPlan
    ELSE [k \in PlanKeys |-> IF k \in DOMAIN reply.sections
                             THEN reply.sections[k].items
                             ELSE <<>>]

\* JSONResponse(content=result) serialises with allow_nan=False: a NaN inside
\* the plan raises ValueError in the constructor, inside the handler's try.
Renderable(result) ==
    \A k \in PlanKeys :
        \A i \in 1..Len(result.Health_Plan[k]) : result.Health_Plan[k][i] # "NaN"

\* ------------------------------------------------------ request inputs

\* A complete record.  Every field has a value of its own, so that the value
\* in a slot of a feature vector tells which field it was taken from.
Record1 ==
    [Age |-> 28, SystolicBP |-> 110, DiastolicBP |-> 70, BS |-> 90,
     BodyTemp |-> 37, HeartRate |-> 80, PulsePressure |-> 40,
     gravida |-> 2, parity |-> 1, gestational_age_weeks |-> 30, BMI |-> 24,
     diabetes |-> 0, hypertension |-> 5, HB |-> 11, fetal_weight |-> 3,
     Protien_Uria |-> 6, amniotic_fluid_levels |-> 12]

MissingSets == {m \in SUBSET Schema : Cardinality(m) <= MaxMissing}

\* JSON bodies: the record with the fields of m left out.
Bodies == {[f \in Schema \ m |-> Record1[f]] : m \in MissingSets}

\* predict_proba(...)[0], in thousandths: a 3-class and a 4-class model.
ProbaVectors == {<<143, 200, 657>>, <<100, 200, 300, 400>>}

\* ------------------------------------------------- per-request state

\* client.messages.create either raises or returns a message with a sid.
Raises == [kind |-> "raises", sid |-> PyNone]
Returns(sid) == [kind |-> "returns", sid |-> sid]
NoCall == [kind |-> "no call", sid |-> PyNone]

TwilioOutcomes == {Raises, Returns(PyStr("SM1")), Returns(PyStr("")),
                   Returns(PyNone)}

\* The variables of a handler describe the request it is serving or served
\* last; nothing of them outlives the request in the program, whose only
\* state shared between requests is bound and client.  They are cleared
\* when the next request, of either endpoint, arrives.
NoPredict ==
    /\ pc = "idle"
    /\ body = EmptyDict
    /\ model_a_out = 0
    /\ frame = EmptyDict
    /\ calls = <<>>
    /\ groq_reply = NoReply
    /\ response = NoResponse

ClearPredict ==
    /\ pc' = "idle"
    /\ body' = EmptyDict
    /\ model_a_out' = 0
    /\ frame' = EmptyDict
    /\ calls' = <<>>
    /\ groq_reply' = NoReply
    /\ response' = NoResponse

NoAlert ==
    /\ twilio_calls = 0
    /\ twilio_outcome = NoCall
    /\ message = EmptyDict
    /\ alert_response = NoResponse

ClearAlert ==
    /\ twilio_calls' = 0
    /\ twilio_outcome' = NoCall
    /\ message' = EmptyDict
    /\ alert_response' = NoResponse

\* -------------------------------------------------- api_predict actions

\* An exception inside the handler's try: the handler returns the error.
Raise(e, frame1, calls1) ==
    /\ pc' = "idle"
    /\ frame' = frame1
    /\ calls' = calls1
    /\ response' = ErrorResponse(e)
    /\ served' = response'.status

\* A POST /api/predict arrives.  FastAPI validates the body first and
\* answers 422 itself, without entering the handler, when it does not fit.
Receive ==
    /\ pc = "idle"
    /\ \E b \in Bodies, a \in ClassIds :
        LET parsed == PredictionRequest(b) IN
        /\ body' = b
        /\ model_a_out' = a
        /\ calls' = <<>>
        /\ groq_reply' = NoReply
        /\ IF parsed.ok
           THEN /\ pc' = "stageA"
                /\ frame' = [data |-> parsed.data]
                /\ response' = NoResponse
                /\ UNCHANGED served
           ELSE /\ pc' = "idle"
                /\ frame' = EmptyDict
                /\ response' = ValidationError
                /\ served' = response'.status
    /\ ClearAlert
    /\ UNCHANGED <<bound, client>>

\* Lines 300-312.
StageA ==
    /\ pc = "stageA"
    /\ LET data == frame.data
           f1 == Update(frame, [x_a |-> FeaturesA(data)])
           risk_pred == model_a_out
           risk_label == risk_map(risk_pred)
       IN  IF "scaler_a" \notin bound
           THEN Raise("NameError: scaler_a", f1, calls)
           ELSE IF "model_a" \notin bound
           THEN Raise("NameError: model_a", f1,
                      Append(calls, "scaler_a.transform"))
           ELSE /\ calls' = calls \o <<"scaler_a.transform", "model_a.predict">>
                /\ frame' = Update(f1, [risk_pred |-> risk_pred,
                                        risk_label |-> risk_label,
                                        result |-> [Risk_Level |-> risk_label]])
                /\ pc' = "branch"
                /\ UNCHANGED <<response, served>>
    /\ UNCHANGED <<bound, client, body, model_a_out, groq_reply, alertVars>>

\* Lines 315-335.
StageB ==
    /\ pc = "branch"
    /\ Escalates(frame.risk_label)
    /\ LET data == frame.data
           f1 == Update(frame, [x_b |-> [columns |-> FEATURES_B,
                                         row |-> FeaturesB(data)]])
       IN  IF "scaler_b" \notin bound
           THEN Raise("NameError: scaler_b", f1, calls)
           ELSE IF "model_b" \notin bound
           THEN Raise("NameError: model_b", f1,
                      Append(calls, "scaler_b.transform"))
           ELSE \E disease_pred \in ClassIds, disease_proba \in ProbaVectors :
                LET calls1 == calls \o <<"scaler_b.transform", "model_b.predict",
                                         "model_b.predict_proba">>
                    disease_label == disease_map(disease_pred)
                    f2 == Update(f1, [disease_pred |-> disease_pred,
                                      disease_proba |-> disease_proba,
                                      disease_label |-> disease_label])
                IN  IF ~ValidIndex(disease_proba, disease_pred)
                    THEN Raise("IndexError", f2, calls1)
                    ELSE LET disease_prob ==
                                 FormatPercent(PyIndex(disease_proba, disease_pred))
                         IN  /\ calls' = calls1
                             /\ frame' = Update(f2,
                                   [disease_prob |-> disease_prob,
                                    result |-> ResultStageB(frame.result,
                                                  disease_label, disease_prob)])
                             /\ pc' = "plan"
                             /\ UNCHANGED <<response, served>>
    /\ UNCHANGED <<bound, client, body, model_a_out, groq_reply, alertVars>>

\* Lines 336-337.
SkipStageB ==
    /\ pc = "branch"
    /\ ~Escalates(frame.risk_label)
    /\ frame' = Update(frame, [result |-> ResultNoStageB(frame.result)])
    /\ pc' = "plan"
    /\ UNCHANGED <<bound, client, body, model_a_out, calls, groq_reply,
                   response, served, alertVars>>

\* Lines 339-346.
Plan ==
    /\ pc = "plan"
    /\ \E reply \in GroqReplies :
        LET health_plan == generate_health_plan(reply)
            result == Update(frame.result, [Health_Plan |-> health_plan])
            f1 == Update(frame, [result |-> result])
            calls1 == Append(calls, "groq.create")
        IN  /\ groq_reply' = reply
            /\ IF Renderable(result)
               THEN /\ pc' = "idle"
                    /\ frame' = f1
                    /\ calls' = calls1
                    /\ response' = [status |-> 200, content |-> result]
                    /\ served' = response'.status
               ELSE Raise("ValueError: Out of range float values", f1, calls1)
    /\ UNCHANGED <<bound, client, body, model_a_out, alertVars>>

\* ------------------------------------------ the alert path (195-291, 349-363)

TWILIO_WHATSAPP_FROM == <<"whatsapp:", "+", "14155238886">>
TO_NUMBER == <<"whatsapp:", "+", "923000976116">>

StartsWith(s, prefix) ==
    Len(s) >= Len(prefix) /\ SubSeq(s, 1, Len(prefix)) = prefix

IsNotSeparator(tok) == tok \notin {" ", "-"}

\* Lines 203-223.
normalize_whatsapp_number(phone_number) ==
    IF phone_number = <<>>
    THEN TO_NUMBER
    ELSE LET cleaned == SelectSeq(phone_number, IsNotSeparator) IN
         IF StartsWith(cleaned, <<"whatsapp:", "+">>)
         THEN cleaned
         ELSE IF StartsWith(cleaned, <<"whatsapp:">>)
         THEN LET rest == Tail(cleaned)
                  number == IF StartsWith(rest, <<"+">>) THEN rest
                            ELSE <<"+">> \o rest
              IN  <<"whatsapp:">> \o number
         ELSE <<"whatsapp:">> \o (IF StartsWith(cleaned, <<"+">>) THEN cleaned
                                  ELSE <<"+">> \o cleaned)

\* str.lower() on the user types that occur.
Lower(s) == IF s = "Doctor" THEN "doctor" ELSE s

\* (user_type or "patient").lower()
Recipient(user_type) == Lower(IF Truthy(user_type) THEN user_type.v ELSE "patient")

\* Lines 240-279: the text chosen for the recipient and the risk level.
AlertBody(recipient, risk_level) ==
    [audience |-> IF recipient = "doctor" THEN "doctor" ELSE "patient",
     text |-> CASE risk_level = "high risk" -> "High Risk Alert"
                [] risk_level = "mid risk"  -> "Moderate Risk Alert"
                [] OTHER                    -> "Low Risk"]

\* Lines 281-291: return message.sid, or None from the except branch.
SidOf(outcome) == IF outcome.kind = "returns" THEN outcome.sid ELSE PyNone

AlertSent(sid) ==
    [status |-> 200,
     content |-> [message |-> "WhatsApp Alert Sent", sid |-> sid.v]]

AlertFailed ==
    [status |-> 500, content |-> [error |-> "Failed to send WhatsApp alert"]]

\* The mutant of AlertResponse: success is reported whatever the sid.
AlertResponseAlwaysSent(sid) == AlertSent(sid)

\* Lines 355-361: if not sid: the 500 payload, else the success payload.
AlertResponse(sid) == IF ~Truthy(sid) THEN AlertFailed ELSE AlertSent(sid)

AlertRiskLevels == {"high risk", "mid risk", "low risk", "unknown"}

UserTypes == {PyNone, PyStr(""), PyStr("patient"), PyStr("doctor"),
              PyStr("Doctor")}

PhoneNumbers ==
    { <<>>, <<" ">>, <<"whatsapp:", "+", "923001234567">>,
      <<"whatsapp:", "923001234567">>, <<"+", "923001234567">>,
      <<"0300", " ", "123", "-", "4567">> }

\* A POST /api/send_alert, from the request to the response.
SendAlert ==
    /\ pc = "idle"
    /\ \E risk_level \in AlertRiskLevels, phone_number \in PhoneNumbers,
          user_type \in UserTypes, outcome \in TwilioOutcomes :
        IF ~client
        THEN /\ twilio_calls' = 0
             /\ twilio_outcome' = NoCall
             /\ message' = EmptyDict
             /\ alert_response' = AlertResponse(PyNone)
        ELSE /\ twilio_calls' = 1
             /\ twilio_outcome' = outcome
             /\ message' = [from_ |-> TWILIO_WHATSAPP_FROM,
                            body |-> AlertBody(Recipient(user_type), risk_level),
                            to |-> normalize_whatsapp_number(phone_number)]
             /\ alert_response' = AlertResponse(SidOf(outcome))
    /\ ClearPredict
    /\ UNCHANGED <<bound, client, served>>

\* ----------------------------------------------------------------- Init

Init ==
    /\ \E n \in 0..Len(LoadOrder) : bound = LoadModels(n)
    /\ client \in BOOLEAN
    /\ NoPredict
    /\ NoAlert
    /\ served = 0

\* ------------------------------------------------------- specification

Next ==
    \/ Receive
    \/ StageA
    \/ StageB
    \/ SkipStageB
    \/ Plan
    \/ SendAlert

Spec == Init /\ [][Next]_vars

\* --------------------------------------------------------------- claims

StageBCalls == {"scaler_b.transform", "model_b.predict", "model_b.predict_proba"}

ClassificationKeys == {"Risk_Level", "Disease_Status", "Disease_Probability"}

Count(name) == Cardinality({i \in 1..Len(calls) : calls[i] = name})

Assigned(name) == name \in DOMAIN frame

\* An api_predict request has arrived and is being served or was answered.
Received == pc # "idle" \/ response.status # 0

\* The request has been answered.
Answered == pc = "idle" /\ response.status # 0

\* C1: when Stage A's label is anything but "high risk" (ModelA returned 1, 2
\* or an unmapped id), the result carries Disease_Status "N/A" and
\* Disease_Probability "0%", and none of scaler_b.transform, model_b.predict,
\* model_b.predict_proba is called at any point of the request.
C1_NoStageBUnlessHighRisk ==
    (Assigned("risk_pred") /\ frame.risk_pred # 0) =>
        /\ frame.risk_label # "high risk"
        /\ \A i \in 1..Len(calls) : calls[i] \notin StageBCalls
        /\ ~Assigned("x_b")
        /\ pc \in {"plan", "idle"} =>
               /\ frame.result.Disease_Status = "N/A"
               /\ frame.result.Disease_Probability = ZeroPercent
        /\ response.status = 200 =>
               /\ response.content.Disease_Status = "N/A"
               /\ response.content.Disease_Probability = ZeroPercent

\* A request answered with a result after ModelA returned an unmapped id.
C1_Witness ==
    /\ response.status = 200
    /\ Assigned("risk_pred") /\ frame.risk_pred = 3
    /\ response.content.Disease_Status = "N/A"
    /\ Len(calls) = 3

\* C2: when Stage A's label is "high risk" (ModelA returned 0), Stage B is
\* invoked exactly once, after Stage A has completed, on the 13-element row
\* (gravida, parity, gestational_age_weeks, Age, BMI, diabetes, hypertension,
\* SystolicBP, DiastolicBP, HB, fetal_weight, Protien_Uria,
\* amniotic_fluid_levels) of the request.
C2_StageBOnceWhenHighRisk ==
    (Assigned("risk_pred") /\ frame.risk_pred = 0 /\ pc \in {"plan", "idle"}) =>
        /\ \A c \in StageBCalls : Count(c) = 1
        /\ SubSeq(calls, 1, 5) =
               <<"scaler_a.transform", "model_a.predict", "scaler_b.transform",
                 "model_b.predict", "model_b.predict_proba">>
        /\ Assigned("x_b")
        /\ frame.x_b.row =
               <<body.gravida, body.parity, body.gestational_age_weeks,
                 body.Age, body.BMI, body.diabetes, body.hypertension,
                 body.SystolicBP, body.DiastolicBP, body.HB, body.fetal_weight,
                 body.Protien_Uria, body.amniotic_fluid_levels>>

\* C2 in a process whose four loads succeeded: there the three Stage B calls
\* are made once each, in order, after Stage A, on the documented row.
C2_StageBOnceWhenLoaded ==
    (bound = Handles /\ Assigned("risk_pred") /\ frame.risk_pred = 0
        /\ pc \in {"plan", "idle"}) =>
        /\ \A c \in StageBCalls : Count(c) = 1
        /\ SubSeq(calls, 1, 5) =
               <<"scaler_a.transform", "model_a.predict", "scaler_b.transform",
                 "model_b.predict", "model_b.predict_proba">>
        /\ Len(frame.x_b.row) = 13
        /\ frame.x_b.row[4] = body.Age

\* The fixed table of C3 for Stage A.
ExpectedRiskLevel(id) ==
    IF id = 1 THEN "low risk" ELSE IF id = 2 THEN "mid risk"
    ELSE IF id = 0 THEN "high risk" ELSE "unknown"

\* The fixed table of C3 for Stage B.
ExpectedDiseaseStatus(id) ==
    IF id = 1 THEN "low" ELSE IF id = 2 THEN "mid"
    ELSE IF id = 0 THEN "high" ELSE "unknown"

\* C3: the labels are the fixed, non-ordinal tables applied to the ids the
\* classifiers returned: Stage A 1 -> "low risk", 2 -> "mid risk",
\* 0 -> "high risk", anything else -> "unknown"; Stage B 1 -> "low",
\* 2 -> "mid", 0 -> "high", anything else -> "unknown".  Every Risk_Level and
\* Disease_Status that is returned equals the table's entry.
C3_FixedLabelTables ==
    /\ Assigned("risk_pred") =>
           /\ frame.risk_label = ExpectedRiskLevel(frame.risk_pred)
           /\ frame.result.Risk_Level = ExpectedRiskLevel(frame.risk_pred)
           /\ response.status = 200 =>
                  response.content.Risk_Level = ExpectedRiskLevel(frame.risk_pred)
    /\ Assigned("disease_pred") =>
           /\ frame.disease_label = ExpectedDiseaseStatus(frame.disease_pred)
           /\ response.status = 200 =>
                  response.content.Disease_Status =
                      ExpectedDiseaseStatus(frame.disease_pred)

\* A result returned with "high risk" from id 0 and "unknown" from a Stage B
\* id outside the table.
C3_Witness ==
    /\ response.status = 200
    /\ Assigned("disease_pred") /\ frame.disease_pred = 3
    /\ response.content.Risk_Level = "high risk"
    /\ response.content.Disease_Status = "unknown"

\* C4: an unmapped class id never fails the request: whenever ModelA or
\* ModelB returns an id outside {0, 1, 2} (for ModelB also an id that is no
\* valid index of the probability vector), the answer is a classification
\* result whose label is "unknown", not an error payload.
C4_UnmappedIdRecovered ==
    /\ (Answered /\ Assigned("risk_pred") /\ frame.risk_pred \notin {0, 1, 2}) =>
           /\ response.status = 200
           /\ response.content.Risk_Level = "unknown"
    /\ (Answered /\ Assigned("disease_pred")
            /\ frame.disease_pred \notin {0, 1, 2}) =>
           /\ response.status = 200
           /\ response.content.Disease_Status = "unknown"

\* The reply has the shape the generator asks for: the three keys, each a
\* list of strings.
RightShape(reply) ==
    /\ reply.kind = "JSON object"
    /\ DOMAIN reply.sections = PlanKeys
    /\ \A k \in PlanKeys :
           /\ reply.sections[k].tag = "list"
           /\ \A i \in 1..Len(reply.sections[k].items) :
                  reply.sections[k].items[i] # "NaN"

\* The generator failed in one of the ways C5 names.
GeneratorFailed(reply) ==
    \/ reply.kind \in {"raises", "not JSON", "JSON array", "JSON scalar"}
    \/ reply.kind = "JSON object" /\ ~RightShape(reply)

\* C5: a failure of the plan generator never fails classification: when the
\* Groq call raises, returns text that is not JSON or returns JSON of the
\* wrong shape, the answer is no error payload and carries Risk_Level,
\* Disease_Status and Disease_Probability as classification computed them.
C5_GeneratorFailureKeepsClassification ==
    (pc = "idle" /\ bound = Handles /\ GeneratorFailed(groq_reply)) =>
        /\ response.status = 200
        /\ response.content.Risk_Level = frame.risk_label
        /\ response.content.Disease_Status =
               (IF Assigned("disease_label") THEN frame.disease_label ELSE "N/A")
        /\ response.content.Disease_Probability =
               (IF Assigned("disease_prob") THEN frame.disease_prob
                ELSE ZeroPercent)

\* The rest of C5: in each of those cases the Health_Plan of a result that
\* is returned is the fixed fallback plan.
C5_GeneratorFailureFallsBack ==
    (pc = "idle" /\ GeneratorFailed(groq_reply) /\ response.status = 200) =>
        response.content.Health_Plan = FallbackPlan

\* C6: the answer is all or nothing: a response of api_predict is either a
\* result with Risk_Level, Disease_Status and Disease_Probability together
\* (and no "error"), or the status-500 payload whose only key is "error",
\* whichever step failed; the 422 sent for a body that does not validate
\* carries no classification field either.
C6_AllOrNothing ==
    LET keys == DOMAIN response.content IN
    /\ response.status \in {0, 200, 422, 500}
    /\ response.status = 200 =>
           ClassificationKeys \subseteq keys /\ "error" \notin keys
    /\ response.status = 500 => keys = {"error"}
    /\ response.status = 422 => keys \cap (ClassificationKeys \cup {"error"}) = {}

\* An error answer to a request whose Stage A result was already in the
\* result dict when Stage B failed.
C6_Witness ==
    /\ response.status = 500
    /\ Assigned("disease_pred")
    /\ DOMAIN frame.result = {"Risk_Level"}
    /\ DOMAIN response.content = {"error"}

\* C7: if the load of any of scaler_a, model_a, scaler_b, model_b raised at
\* start-up, every api_predict request is answered with an error payload and
\* never with a classification result, whatever label Stage A would yield.
C7_UnloadedHandleFailsEveryRequest ==
    (bound # Handles /\ Answered) =>
        /\ response.status # 200
        /\ DOMAIN response.content \cap ClassificationKeys = {}

\* C8: a record with all seven Stage A fields that leaves out one or more of
\* the Stage-B-only fields is accepted and classified successfully whenever
\* Stage A yields a label other than "high risk".
C8_StageBFieldsOptionalWithoutEscalation ==
    (/\ Answered
     /\ bound = Handles
     /\ FieldsA \subseteq DOMAIN body
     /\ ~(StageBOnlyFields \subseteq DOMAIN body)
     /\ model_a_out # 0
     /\ ~GeneratorFailed(groq_reply)) =>
        /\ response.status = 200
        /\ ClassificationKeys \subseteq DOMAIN response.content

\* C9: a record that lacks a Stage B field, sent when Stage A yields "high
\* risk" (ModelA assigns it id 0), is rejected as malformed input: no value is
\* put in the field's place, no collaborator is called and no Disease_Status
\* is returned.
C9_MissingStageBFieldRejected ==
    (Received /\ ~(StageBOnlyFields \subseteq DOMAIN body) /\ model_a_out = 0) =>
        /\ pc = "idle"
        /\ response.status = 422
        /\ "Disease_Status" \notin DOMAIN response.content
        /\ DOMAIN frame = {}
        /\ calls = <<>>

\* The rejection of a record that has every Stage A field but lacks a Stage B
\* field, and that ModelA would label "high risk".
C9_Witness ==
    /\ response.status = 422
    /\ FieldsA \subseteq DOMAIN body
    /\ "gravida" \notin DOMAIN body
    /\ model_a_out = 0

\* C10: api_send_alert answers {"message": "WhatsApp Alert Sent", "sid": ...}
\* exactly when the Twilio client is configured and client.messages.create
\* returned a message with a non-empty sid for this request.  Without a
\* client no send is attempted; when the send raises the exception is
\* swallowed; in both cases the answer is the 500 error payload.  This holds
\* whatever api_predict requests were served before.
C10_AlertSuccessIffSent ==
    alert_response.status # 0 =>
        /\ alert_response.status = 200 <=>
               /\ client
               /\ twilio_calls = 1
               /\ twilio_outcome.kind = "returns"
               /\ Truthy(twilio_outcome.sid)
        /\ alert_response.status = 200 =>
               /\ DOMAIN alert_response.content = {"message", "sid"}
               /\ alert_response.content.message = "WhatsApp Alert Sent"
               /\ alert_response.content.sid = twilio_outcome.sid.v
        /\ alert_response.status # 200 =>
               /\ alert_response.status = 500
               /\ DOMAIN alert_response.content = {"error"}
               /\ alert_response.content.error = "Failed to send WhatsApp alert"
        /\ ~client => twilio_calls = 0 /\ twilio_outcome.kind = "no call"
        /\ twilio_calls \in {0, 1}

\* An alert reported as sent right after an api_predict request that ended
\* in an error payload.
C10_Witness ==
    /\ alert_response.status = 200
    /\ twilio_outcome = Returns(PyStr("SM1"))
    /\ served = 500
    /\ bound # Handles

====
